---- MODULE Spec2Model ----
(***************************************************************************)
(* Model of src/app.py: the JWT fetch job (fetch_jwt_tokens), its per      *)
(* account retry loop (fetch_token), the change gate on token_ind.json,    *)
(* the GitHub upload (upload_to_github) and the two triggers that start a  *)
(* job run (the hourly schedule_task thread and the /run-job handler).     *)
(***************************************************************************)
EXTENDS Integers, Sequences, FiniteSets, TLC

\* ------------------------------------------------------------------ bounds

\* Longest account list read from ind_ind.json in SpecFetch.
MaxBatch == 2

\* Number of job runs started in one behaviour of Spec (the triggers fire for
\* ever; StartRun is guarded by this cap).
MaxRuns == 2

\* Width of the worker pool.  app.py:33 sets 50; the model takes a width that
\* an account list of MaxBatch entries exceeds, so that the limit is reached.
MAX_THREADS == 1

\* app.py:34
MAX_RETRIES == 3

\* The callers of fetch_jwt_tokens that run side by side: the background
\* timer thread (app.py:149-158) and the /run-job handler (app.py:143-146).
\* The call at start-up (app.py:161) returns before the server accepts
\* requests and is one more run of the second.
Procs == {"schedule_task", "run_job"}

Uids == {"a1", "a2"}

\* Non-empty token strings the remote API may answer with.
Tokens == {"T1", "T2"}

\* ------------------------------------------------------------ account source

\* Entries of ind_ind.json: well-formed accounts, an entry without "uid" and
\* an entry without "password".
Account(u) == [uid |-> u, password |-> "p"]

NoUid == [password |-> "p"]

NoPassword == [uid |-> "a1"]

Entries == {Account(u) : u \in Uids} \cup {NoUid, NoPassword}

SeqsUpTo(S, n) == UNION {[1..k -> S] : k \in 0..n}

\* ------------------------------------------------------------ remote API

\* What one requests.get(...) of fetch_token can end in: a response with a
\* status and a body (token "" stands for a missing or empty token field), a
\* timeout, a connection error, or any other exception.
Responses ==
    {[kind |-> "response", status |-> 200, token |-> t] : t \in Tokens \cup {""}}
    \cup {[kind |-> "response", status |-> 500, token |-> "T1"]}
    \cup {[kind |-> k, status |-> 0, token |-> ""] :
             k \in {"timeout", "connection", "exception"}}

\* The API's side of an answer: a 200 response whose body carries a token.
TokenAnswer(r) == r \in {[kind |-> "response", status |-> 200, token |-> t] : t \in Tokens}

\* ------------------------------------------------------------ fetch_token

\* A submitted fetch_token call (a future of the pool).
\*   st     queued | request | sleep | ok | none | raised
\*   att    the loop variable `attempt`
\*   reqs   requests.get calls issued, fails: attempts that did not return,
\*   logs   per-attempt log lines written, sleeps: time.sleep(1) calls ended
\*   good   the API's last answer was a 200 response carrying a token
\*   taken  as_completed has yielded the future
NewFuture == [st |-> "queued", att |-> 0, reqs |-> 0, fails |-> 0, logs |-> 0,
              sleeps |-> 0, token |-> "", good |-> FALSE, taken |-> FALSE]

\* app.py:39: both keys are read before the loop.
WellFormed(acc) == "uid" \in DOMAIN acc /\ "password" \in DOMAIN acc

\* The loop written as range(MAX_RETRIES): attempts numbered from 0.
BeginFetchFromZero(f, acc) ==
    IF WellFormed(acc)
    THEN [f EXCEPT !.st = "request", !.att = 0, !.reqs = 1]
    ELSE [f EXCEPT !.st = "raised"]

\* app.py:39-43: the worker starts the call: KeyError on a missing key, else
\* the first attempt's request is issued.
BeginFetch(f, acc) ==
    IF WellFormed(acc)
    THEN [f EXCEPT !.st = "request", !.att = 1, !.reqs = 1]
    ELSE [f EXCEPT !.st = "raised"]

\* app.py:45-49: an attempt succeeds on status 200 with a truthy token.
Success(r) == r.kind = "response" /\ r.status = 200 /\ r.token # ""

\* app.py:43-65: the request of the current attempt concludes with r; every
\* branch writes one log line; success returns, anything else falls through
\* to the sleep of line 67.
Attempt(f, r) ==
    IF Success(r)
    THEN [f EXCEPT !.st = "ok", !.token = r.token, !.logs = @ + 1]
    ELSE [f EXCEPT !.st = "sleep", !.fails = @ + 1, !.logs = @ + 1]

\* The loop written as while True: a failed call is retried until it succeeds.
AfterSleepUntilSuccess(f) ==
    [f EXCEPT !.st = "request", !.att = @ + 1, !.reqs = @ + 1, !.sleeps = @ + 1]

\* The loop bound off by one: one attempt more than MAX_RETRIES.
AfterSleepOneMore(f) ==
    IF f.att <= MAX_RETRIES
    THEN [f EXCEPT !.st = "request", !.att = @ + 1, !.reqs = @ + 1,
                   !.sleeps = @ + 1]
    ELSE [f EXCEPT !.st = "none", !.sleeps = @ + 1]

\* app.py:67, 41, 69-70: the sleep ends; the loop goes on to the next attempt
\* or, after MAX_RETRIES attempts, returns None.
AfterSleep(f) ==
    IF f.att < MAX_RETRIES
    THEN [f EXCEPT !.st = "request", !.att = @ + 1, !.reqs = @ + 1,
                   !.sleeps = @ + 1]
    ELSE [f EXCEPT !.st = "none", !.sleeps = @ + 1]

Concluded(f) == f.st \in {"ok", "none", "raised"}

\* A collector that sees a finished future again.
YieldedAgain(f) == f

\* app.py:85: as_completed yields each future once.
Yielded(f) == [f EXCEPT !.taken = TRUE]

\* The exception of a call swallowed by the collector.
RaisesNever(f) == FALSE

\* fetch_token raising after the last attempt instead of returning None.
RaisesOnNone(f) == f.st \in {"raised", "none"}

\* app.py:86: future.result() re-raises the exception of the call.
Raises(f) == f.st = "raised"

\* The filter of line 87 left out: a None result is appended too.
KeptAny(f) == f.st \in {"ok", "none"}

\* app.py:87: `if result:` keeps a returned {"token": ...} and drops None.
Kept(f) == f.st = "ok"

InFlight(f) == f.st \in {"request", "sleep"}

\* ------------------------------------------------------------ token_ind.json

\* The text left without its end: a dump that is never flushed completely.
JsonDumpUnclosed(toks) == <<"[">> \o [i \in 1..Len(toks) |-> toks[i].token]

\* The file's text as a sequence of units: "[" , one unit per token object,
\* "]".  The empty text is a file just truncated by open(..., "w").
JsonDump(toks) == <<"[">> \o [i \in 1..Len(toks) |-> toks[i].token] \o <<"]">>

Parseable(bytes) ==
    /\ Len(bytes) >= 2
    /\ bytes[1] = "[" /\ bytes[Len(bytes)] = "]"
    /\ \A i \in 2..(Len(bytes) - 1) : bytes[i] \notin {"[", "]"}

JsonLoad(bytes) == [i \in 1..(Len(bytes) - 2) |-> [token |-> bytes[i + 1]]]

\* A handle opened with "w" writes from offset 0 over whatever the file holds
\* when the buffer is flushed; a longer text written meanwhile keeps its tail.
WriteAtStart(old, new) ==
    IF Len(old) > Len(new) THEN new \o SubSeq(old, Len(new) + 1, Len(old)) ELSE new

NoFile == [exists |-> FALSE, bytes |-> <<>>]

FileOf(bytes) == [exists |-> TRUE, bytes |-> bytes]

\* The comparison of line 94 on the lengths only.
SameTokensByLength(existing_data, toks) == Len(existing_data) = Len(toks)

\* The comparison of line 94 written with `is`: never true of a loaded list.
SameTokensIdentity(existing_data, toks) == FALSE

\* A gate that compares the two lists as collections, whatever their order.
SameTokensAsSets(existing_data, toks) ==
    /\ Len(existing_data) = Len(toks)
    /\ {existing_data[i] : i \in 1..Len(existing_data)} = {toks[i] : i \in 1..Len(toks)}

\* A gate that special-cases the empty result: nothing fetched, nothing to do.
SameTokensOrEmpty(existing_data, toks) == existing_data = toks \/ toks = <<>>

\* app.py:94: existing_data == tokens
SameTokens(existing_data, toks) == existing_data = toks

\* ------------------------------------------------------------------ state

VARIABLES
    accountsFile,  \* ind_ind.json: [readable, accounts]
    tokenFile,     \* token_ind.json: [exists, bytes]
    remote,        \* the copy in the GitHub repository: [exists, bytes]
    runsLeft,      \* job runs the triggers may still start (the model's cap)
    pc,            \* per trigger: the position of its job run
    accounts,      \* per run: the list loaded from ind_ind.json
    futs,          \* per run: the futures submitted so far, in submission order
    tokens,        \* per run: the list `tokens`
    origin,        \* per run: for each element of tokens, the future it came from
    raised,        \* per run: where an exception was raised in fetch_jwt_tokens:
                   \*   "" | accounts | submit | result | state
    existing,      \* per run: what the run read from token_ind.json
    wrote,         \* per run: the run has written token_ind.json
    upload,        \* per run: [invoked, ok, content] of upload_to_github
    solo,          \* per run: no other run has been active during this run
    hist           \* summaries of the finished runs, in order of completion

vars == <<accountsFile, tokenFile, remote, runsLeft, pc, accounts, futs, tokens,
          origin, raised, existing, wrote, upload, solo, hist>>

fileVars == <<accountsFile, tokenFile, remote>>

NotRead == [read |-> FALSE, exists |-> FALSE, data |-> <<>>]

NoUpload == [invoked |-> FALSE, ok |-> FALSE, content |-> <<>>]

Active(p) == pc[p] \notin {"idle", "done"}

\* Account sources and persisted states a process start can find.
AccountSources(n) ==
    {[readable |-> FALSE, accounts |-> <<>>]}
    \cup {[readable |-> TRUE, accounts |-> b] : b \in SeqsUpTo(Entries, n)}

InitialTokenFiles ==
    {NoFile, FileOf(<<"[">>), FileOf(JsonDump(<<>>)),
     FileOf(JsonDump(<<[token |-> "T1"]>>))}

InitRun(maxBatch, runs) ==
    /\ accountsFile \in AccountSources(maxBatch)
    /\ tokenFile \in InitialTokenFiles
    /\ remote = NoFile
    /\ runsLeft = runs
    /\ pc = [p \in Procs |-> "idle"]
    /\ accounts = [p \in Procs |-> <<>>]
    /\ futs = [p \in Procs |-> <<>>]
    /\ tokens = [p \in Procs |-> <<>>]
    /\ origin = [p \in Procs |-> <<>>]
    /\ raised = [p \in Procs |-> ""]
    /\ existing = [p \in Procs |-> NotRead]
    /\ wrote = [p \in Procs |-> FALSE]
    /\ upload = [p \in Procs |-> NoUpload]
    /\ solo = [p \in Procs |-> TRUE]
    /\ hist = <<>>

\* Overlapping and consecutive job runs; the account list has at most one
\* entry, which keeps two interleaved runs within reach of exhaustive search.
Init == InitRun(1, MaxRuns)

\* One job run over account lists of up to MaxBatch entries.
InitFetch == InitRun(MaxBatch, 1)

\* ------------------------------------------------------------------ job run

\* An except clause that names the file errors only (OSError, ValueError):
\* the KeyError of a malformed entry passes through it.
CaughtFileErrorsOnly(rs) == rs \in {"accounts", "state"}

\* app.py:107: except Exception encloses lines 75-105, so it catches the
\* exception of every place a run can raise at.
Caught(rs) == rs \in {"accounts", "submit", "result", "state"}

\* app.py:146: the body of the on-demand trigger's answer.
Ack == "JWT tokens updated!"

\* app.py:143-146, 149-154: what the caller gets when fetch_jwt_tokens is
\* over: run_job answers with the acknowledgement unless an exception came
\* out of the call; the scheduler loop receives nothing.
Reply(p, rs) ==
    IF p # "run_job" THEN ""
    ELSE IF rs # "" /\ ~Caught(rs) THEN "error" ELSE Ack

\* What is kept of a run when it ends.
Summary(p, rs, ex, wr, up) ==
    [proc |-> p, raised |-> rs, tokens |-> tokens[p], existing |-> ex,
     wrote |-> wr, upload |-> up, solo |-> solo[p], reply |-> Reply(p, rs),
     origin |-> origin[p]]

\* A single-run guard: a trigger waits while another run is active.
StartRunExclusive(p) ==
    /\ pc[p] \in {"idle", "done"}
    /\ \A o \in Procs \ {p} : ~Active(o)
    /\ runsLeft > 0
    /\ runsLeft' = runsLeft - 1
    /\ pc' = [pc EXCEPT ![p] = "load"]
    /\ accounts' = [accounts EXCEPT ![p] = <<>>]
    /\ futs' = [futs EXCEPT ![p] = <<>>]
    /\ tokens' = [tokens EXCEPT ![p] = <<>>]
    /\ origin' = [origin EXCEPT ![p] = <<>>]
    /\ raised' = [raised EXCEPT ![p] = ""]
    /\ existing' = [existing EXCEPT ![p] = NotRead]
    /\ wrote' = [wrote EXCEPT ![p] = FALSE]
    /\ upload' = [upload EXCEPT ![p] = NoUpload]
    /\ solo' = [solo EXCEPT ![p] = TRUE]
    /\ UNCHANGED <<fileVars, hist>>

\* app.py:144-145 and 151-153: a trigger calls fetch_jwt_tokens; each trigger
\* runs its calls one after the other, the two triggers do not wait for each
\* other.
StartRun(p) ==
    /\ pc[p] \in {"idle", "done"}
    /\ runsLeft > 0
    /\ runsLeft' = runsLeft - 1
    /\ pc' = [pc EXCEPT ![p] = "load"]
    /\ accounts' = [accounts EXCEPT ![p] = <<>>]
    /\ futs' = [futs EXCEPT ![p] = <<>>]
    /\ tokens' = [tokens EXCEPT ![p] = <<>>]
    /\ origin' = [origin EXCEPT ![p] = <<>>]
    /\ raised' = [raised EXCEPT ![p] = ""]
    /\ existing' = [existing EXCEPT ![p] = NotRead]
    /\ wrote' = [wrote EXCEPT ![p] = FALSE]
    /\ upload' = [upload EXCEPT ![p] = NoUpload]
    /\ solo' = [q \in Procs |->
                   IF q = p THEN \A o \in Procs \ {p} : ~Active(o)
                   ELSE IF Active(q) THEN FALSE ELSE solo[q]]
    /\ UNCHANGED <<fileVars, hist>>

\* app.py:76-81: the account list is read; a file that cannot be read or
\* parsed raises and the run ends at line 107.
LoadAccounts(p) ==
    /\ pc[p] = "load"
    /\ IF accountsFile.readable
       THEN /\ accounts' = [accounts EXCEPT ![p] = accountsFile.accounts]
            /\ pc' = [pc EXCEPT ![p] =
                         IF accountsFile.accounts = <<>> THEN "collect" ELSE "submit"]
            /\ UNCHANGED <<raised, hist>>
       ELSE /\ raised' = [raised EXCEPT ![p] = "accounts"]
            /\ pc' = [pc EXCEPT ![p] = "done"]
            /\ hist' = Append(hist, Summary(p, "accounts", existing[p], wrote[p],
                                            upload[p]))
            /\ UNCHANGED accounts
    /\ UNCHANGED <<fileVars, runsLeft, futs, tokens, origin, existing, wrote,
                   upload, solo>>

\* app.py:83: one step of the comprehension: executor.submit(fetch_token, acc),
\* then acc["uid"] (a dict display evaluates the key before the value), which
\* raises for an entry without "uid" and leaves the with block.
Submit(p) ==
    /\ pc[p] = "submit"
    /\ LET i == Len(futs[p]) + 1
           acc == accounts[p][i]
       IN  /\ futs' = [futs EXCEPT ![p] = Append(@, NewFuture)]
           /\ IF "uid" \in DOMAIN acc
              THEN /\ pc' = [pc EXCEPT ![p] =
                                IF i = Len(accounts[p]) THEN "collect" ELSE "submit"]
                   /\ UNCHANGED raised
              ELSE /\ pc' = [pc EXCEPT ![p] = "exit"]
                   /\ raised' = [raised EXCEPT ![p] = "submit"]
    /\ UNCHANGED <<fileVars, runsLeft, accounts, tokens, origin, existing, wrote,
                   upload, solo, hist>>

Busy(p) == {i \in 1..Len(futs[p]) : InFlight(futs[p][i])}

\* A pool that starts one worker more than max_workers.
WorkerFreeOneMore(p) == Cardinality(Busy(p)) <= MAX_THREADS

\* ThreadPoolExecutor(max_workers=MAX_THREADS): a worker takes the oldest
\* queued call when fewer than MAX_THREADS calls are running.
WorkerFree(p) == Cardinality(Busy(p)) < MAX_THREADS

WorkerStart(p, i) ==
    /\ i \in 1..Len(futs[p])
    /\ futs[p][i].st = "queued"
    /\ \A j \in 1..(i - 1) : futs[p][j].st # "queued"
    /\ WorkerFree(p)
    /\ futs' = [futs EXCEPT ![p][i] = BeginFetch(@, accounts[p][i])]
    /\ UNCHANGED <<fileVars, runsLeft, pc, accounts, tokens, origin, raised,
                   existing, wrote, upload, solo, hist>>

\* The remote API answers (or the request fails) for the current attempt.
Respond(p, i, r) ==
    /\ i \in 1..Len(futs[p])
    /\ futs[p][i].st = "request"
    /\ futs' = [futs EXCEPT ![p][i] = [Attempt(@, r) EXCEPT !.good = TokenAnswer(r)]]
    /\ UNCHANGED <<fileVars, runsLeft, pc, accounts, tokens, origin, raised,
                   existing, wrote, upload, solo, hist>>

Wake(p, i) ==
    /\ i \in 1..Len(futs[p])
    /\ futs[p][i].st = "sleep"
    /\ futs' = [futs EXCEPT ![p][i] = AfterSleep(@)]
    /\ UNCHANGED <<fileVars, runsLeft, pc, accounts, tokens, origin, raised,
                   existing, wrote, upload, solo, hist>>

\* app.py:85-88: as_completed yields a finished future not yet yielded;
\* future.result() re-raises the call's exception; a truthy result is
\* appended.
Collect(p, i) ==
    /\ pc[p] = "collect"
    /\ i \in 1..Len(futs[p])
    /\ Concluded(futs[p][i]) /\ ~futs[p][i].taken
    /\ futs' = [futs EXCEPT ![p][i] = Yielded(@)]
    /\ IF Raises(futs[p][i])
       THEN /\ raised' = [raised EXCEPT ![p] = "result"]
            /\ pc' = [pc EXCEPT ![p] = "exit"]
            /\ UNCHANGED <<tokens, origin>>
       ELSE /\ IF Kept(futs[p][i])
               THEN /\ tokens' = [tokens EXCEPT ![p] =
                                     Append(@, [token |-> futs[p][i].token])]
                    /\ origin' = [origin EXCEPT ![p] = Append(@, i)]
               ELSE UNCHANGED <<tokens, origin>>
            /\ UNCHANGED <<pc, raised>>
    /\ UNCHANGED <<fileVars, runsLeft, accounts, existing, wrote, upload, solo, hist>>

\* The pool shut down with wait=False.
PoolNotAwaited(p) == TRUE

\* The with block of app.py:82 may be left once every submitted call has
\* concluded (executor.shutdown(wait=True)).
PoolDrained(p) == \A i \in 1..Len(futs[p]) : Concluded(futs[p][i])

\* The job wrapped in a retry: after an exception the run starts over.
ExitPoolRetry(p) ==
    /\ \/ pc[p] = "exit"
       \/ pc[p] = "collect" /\ \A i \in 1..Len(futs[p]) : futs[p][i].taken
    /\ PoolDrained(p)
    /\ pc' = [pc EXCEPT ![p] = IF raised[p] # "" THEN "load" ELSE "compare"]
    /\ UNCHANGED <<fileVars, runsLeft, accounts, futs, tokens, origin, raised,
                   existing, wrote, upload, solo, hist>>

\* app.py:82-88, 107-108: the with block is left: normally when as_completed
\* is exhausted, or by the exception, which then ends the run at line 107.
ExitPool(p) ==
    /\ \/ pc[p] = "exit"
       \/ pc[p] = "collect" /\ \A i \in 1..Len(futs[p]) : futs[p][i].taken
    /\ PoolDrained(p)
    /\ IF raised[p] # ""
       THEN /\ pc' = [pc EXCEPT ![p] = "done"]
            /\ hist' = Append(hist, Summary(p, raised[p], existing[p], wrote[p],
                                            upload[p]))
       ELSE /\ pc' = [pc EXCEPT ![p] = "compare"]
            /\ UNCHANGED hist
    /\ UNCHANGED <<fileVars, runsLeft, accounts, futs, tokens, origin, raised,
                   existing, wrote, upload, solo>>

\* A gate that takes an unparseable file for a missing one and goes on to
\* write.
ReadStateLenient(p) ==
    /\ pc[p] = "compare"
    /\ IF ~tokenFile.exists \/ ~Parseable(tokenFile.bytes)
       THEN /\ existing' = [existing EXCEPT ![p] =
                               [read |-> TRUE, exists |-> FALSE, data |-> <<>>]]
            /\ pc' = [pc EXCEPT ![p] = "write"]
            /\ UNCHANGED <<raised, hist>>
       ELSE LET ex == [read |-> TRUE, exists |-> TRUE,
                       data |-> JsonLoad(tokenFile.bytes)]
            IN  /\ existing' = [existing EXCEPT ![p] = ex]
                /\ UNCHANGED raised
                /\ IF SameTokens(ex.data, tokens[p])
                   THEN /\ pc' = [pc EXCEPT ![p] = "done"]
                        /\ hist' = Append(hist, Summary(p, "", ex, wrote[p], upload[p]))
                   ELSE /\ pc' = [pc EXCEPT ![p] = "write"]
                        /\ UNCHANGED hist
    /\ UNCHANGED <<fileVars, runsLeft, accounts, futs, tokens, origin, wrote,
                   upload, solo>>

\* app.py:91-96: the change gate.
ReadState(p) ==
    /\ pc[p] = "compare"
    /\ IF ~tokenFile.exists
       THEN /\ existing' = [existing EXCEPT ![p] =
                               [read |-> TRUE, exists |-> FALSE, data |-> <<>>]]
            /\ pc' = [pc EXCEPT ![p] = "write"]
            /\ UNCHANGED <<raised, hist>>
       ELSE IF ~Parseable(tokenFile.bytes)
       THEN /\ raised' = [raised EXCEPT ![p] = "state"]
            /\ pc' = [pc EXCEPT ![p] = "done"]
            /\ hist' = Append(hist, Summary(p, "state", existing[p], wrote[p],
                                            upload[p]))
            /\ UNCHANGED existing
       ELSE LET ex == [read |-> TRUE, exists |-> TRUE,
                       data |-> JsonLoad(tokenFile.bytes)]
            IN  /\ existing' = [existing EXCEPT ![p] = ex]
                /\ UNCHANGED raised
                /\ IF SameTokens(ex.data, tokens[p])
                   THEN /\ pc' = [pc EXCEPT ![p] = "done"]
                        /\ hist' = Append(hist, Summary(p, "", ex, wrote[p], upload[p]))
                   ELSE /\ pc' = [pc EXCEPT ![p] = "write"]
                        /\ UNCHANGED hist
    /\ UNCHANGED <<fileVars, runsLeft, accounts, futs, tokens, origin, wrote,
                   upload, solo>>

\* app.py:99: open(TOKEN_JSON_FILE, "w") creates or truncates the file.
OpenWrite(p) ==
    /\ pc[p] = "write"
    /\ tokenFile' = FileOf(<<>>)
    /\ pc' = [pc EXCEPT ![p] = "dump"]
    /\ UNCHANGED <<accountsFile, remote, runsLeft, accounts, futs, tokens, origin,
                   raised, existing, wrote, upload, solo, hist>>

\* app.py:100: json.dump and the close of the file.
Dump(p) ==
    /\ pc[p] = "dump"
    /\ tokenFile' = FileOf(WriteAtStart(tokenFile.bytes, JsonDump(tokens[p])))
    /\ wrote' = [wrote EXCEPT ![p] = TRUE]
    /\ pc' = [pc EXCEPT ![p] = "upload"]
    /\ UNCHANGED <<accountsFile, remote, runsLeft, accounts, futs, tokens, origin,
                   raised, existing, upload, solo, hist>>

\* How a call of upload_to_github can go: an exception before the file is
\* read (lines 114-115), an exception in create_file/update_file, or success.
UploadOutcomes == {"early_error", "push_error", "ok"}

\* app.py:105, 111-135: upload_to_github re-reads token_ind.json and creates
\* or updates the remote file; every exception is caught and logged.
Upload(p, o) ==
    /\ pc[p] = "upload"
    /\ LET up == [invoked |-> TRUE, ok |-> o = "ok",
                  content |-> IF o = "early_error" THEN <<>> ELSE tokenFile.bytes]
       IN  /\ upload' = [upload EXCEPT ![p] = up]
           /\ remote' = IF o = "ok" THEN FileOf(tokenFile.bytes) ELSE remote
           /\ hist' = Append(hist, Summary(p, "", existing[p], wrote[p], up))
    /\ pc' = [pc EXCEPT ![p] = "done"]
    /\ UNCHANGED <<accountsFile, tokenFile, runsLeft, accounts, futs, tokens,
                   origin, raised, existing, wrote, solo>>

Step(p) ==
    \/ StartRun(p)
    \/ LoadAccounts(p)
    \/ Submit(p)
    \/ \E i \in 1..MaxBatch : WorkerStart(p, i)
    \/ \E i \in 1..MaxBatch, r \in Responses : Respond(p, i, r)
    \/ \E i \in 1..MaxBatch : Wake(p, i)
    \/ \E i \in 1..MaxBatch : Collect(p, i)
    \/ ExitPool(p)
    \/ ReadState(p)
    \/ OpenWrite(p)
    \/ Dump(p)
    \/ \E o \in UploadOutcomes : Upload(p, o)

Next == \E p \in Procs : Step(p)

Spec == Init /\ [][Next]_vars

SpecFetch == InitFetch /\ [][Next]_vars

\* app.py:82, 149-158: a run that has started keeps running: its thread and
\* the pool's workers are scheduled, each request ends within its timeout
\* (line 43) and the call of upload_to_github returns. Nothing obliges a
\* trigger to start a run.
Proceed(p) == Active(p) /\ Step(p)

Fairness == \A p \in Procs : WF_vars(Proceed(p))

SpecLive == InitFetch /\ [][Next]_vars /\ Fairness

\* Repeated runs over one batch of two accounts, starting without a token
\* file: the setting in which the order of a Result Set matters.
InitOrder ==
    /\ InitRun(MaxBatch, MaxRuns)
    /\ accountsFile = [readable |-> TRUE,
                       accounts |-> <<Account("a1"), Account("a2")>>]
    /\ tokenFile = NoFile

\* app.py:149-154: the scheduler loop alone, one run after the other.
NextOrder == Step("schedule_task")

SpecOrder == InitOrder /\ [][NextOrder]_vars

\* ------------------------------------------------------------------ claims

\* The run of p has left the fetching stage.
LeftFetching(p) == pc[p] \in {"compare", "write", "dump", "upload", "done"}

\* The Result Set of p differs from the Persisted State p read (an absent
\* file counts as different).
Differs(ex, toks) == ~ex.exists \/ ex.data # toks

FutureIds(p) == 1..Len(futs[p])

\* C1: a run that read the Persisted State (or found no file) writes
\* token_ind.json and invokes upload_to_github if and only if its Result Set
\* differs from what it read; on equality it does neither, and no run writes
\* or publishes without having found a difference.
C1_ChangeGate ==
    \A p \in Procs :
        /\ (wrote[p] \/ upload[p].invoked \/ pc[p] \in {"write", "dump", "upload"})
              => existing[p].read /\ Differs(existing[p], tokens[p])
        /\ upload[p].invoked => wrote[p]
        /\ (pc[p] = "done" /\ existing[p].read)
              => ((wrote[p] /\ upload[p].invoked) <=> Differs(existing[p], tokens[p]))

\* A finished run that read a parseable file holding other tokens, wrote and
\* published; and a finished run that found its own Result Set and did neither.
C1_Witness ==
    \E p, q \in Procs :
        /\ pc[p] = "done" /\ existing[p].exists /\ existing[p].data # tokens[p]
        /\ wrote[p] /\ upload[p].invoked
        /\ pc[q] = "done" /\ existing[q].exists /\ existing[q].data = tokens[q]
        /\ Len(tokens[q]) > 0 /\ ~wrote[q] /\ ~upload[q].invoked

\* C2: every element of the Result Set is the token of one submitted
\* fetch_token call that returned a non-empty token from a 200 response
\* within MAX_RETRIES attempts; calls that ended in None or raised contribute
\* nothing; the Result Set is no longer than the batch.
C2_OnlySuccessfulTokens ==
    \A p \in Procs :
        /\ Len(tokens[p]) <= Len(accounts[p])
        /\ Len(origin[p]) = Len(tokens[p])
        /\ \A k \in 1..Len(tokens[p]) :
              /\ origin[p][k] \in FutureIds(p)
              /\ LET f == futs[p][origin[p][k]]
                 IN  /\ f.st = "ok"
                     /\ f.token \in Tokens
                     /\ f.reqs \in 1..MAX_RETRIES
                     /\ tokens[p][k] = [token |-> f.token]

\* A run past the fetching stage whose batch of two gave one token: one call
\* succeeded, the other exhausted its attempts.
C2_Witness ==
    \E p \in Procs :
        /\ LeftFetching(p) /\ Len(accounts[p]) = 2 /\ Len(tokens[p]) = 1
        /\ \E i \in FutureIds(p) : futs[p][i].st = "none"

\* C3 as stated: no two elements of the Result Set come from entries with the
\* same uid.
C3_OnePerAccount ==
    \A p \in Procs : \A k1, k2 \in 1..Len(origin[p]) :
        k1 # k2 => accounts[p][origin[p][k1]].uid # accounts[p][origin[p][k2]].uid

\* C3 amended: every submitted fetch_token call (every entry of the batch)
\* contributes at most one element of the Result Set, whatever its number of
\* attempts, and that element is the token of its one successful attempt.
C3_OnePerSubmittedFetch ==
    \A p \in Procs :
        /\ \A k1, k2 \in 1..Len(origin[p]) : k1 # k2 => origin[p][k1] # origin[p][k2]
        /\ \A k \in 1..Len(origin[p]) :
              LET f == futs[p][origin[p][k]]
              IN  f.taken /\ f.fails = f.reqs - 1 /\ tokens[p][k].token = f.token

\* Two different accounts, both fetched after a failed first attempt, one
\* token each.
C3_Witness ==
    \E p \in Procs :
        /\ LeftFetching(p) /\ Len(tokens[p]) = 2
        /\ accounts[p][1].uid # accounts[p][2].uid
        /\ \A i \in FutureIds(p) : futs[p][i].fails >= 1

\* C4: a fetch_token call that returned a token did so on attempt N in
\* 1..MAX_RETRIES, after exactly N-1 failed attempts and exactly N requests
\* (one log line each); having returned, it issues no further request; and
\* an attempt the API answers with a token always ends the call with it.
C4_SuccessOnAttemptN ==
    \A p \in Procs : \A i \in FutureIds(p) :
        LET f == futs[p][i]
        IN  /\ f.good <=> f.st = "ok"
            /\ f.st = "ok" =>
                   /\ f.att \in 1..MAX_RETRIES
                   /\ f.reqs = f.att
                   /\ f.fails = f.att - 1
                   /\ f.logs = f.att
                   /\ f.token \in Tokens

\* A call that failed MAX_RETRIES - 1 times and returned the token of the
\* last attempt.
C4_Witness ==
    \E p \in Procs : \E i \in FutureIds(p) :
        futs[p][i].st = "ok" /\ futs[p][i].fails = MAX_RETRIES - 1
           /\ futs[p][i].reqs = MAX_RETRIES

\* C5: a fetch_token call never issues more than MAX_RETRIES requests; it
\* returns None only after exactly MAX_RETRIES failed attempts, each logged;
\* and after MAX_RETRIES failed attempts it makes no further attempt.
C5_ExhaustsRetries ==
    \A p \in Procs : \A i \in FutureIds(p) :
        LET f == futs[p][i]
        IN  /\ f.reqs <= MAX_RETRIES
            /\ f.st = "none" =>
                  f.reqs = MAX_RETRIES /\ f.fails = MAX_RETRIES /\ f.logs = MAX_RETRIES
            /\ f.fails = MAX_RETRIES => f.st \in {"sleep", "none"}
            /\ f.fails < MAX_RETRIES => f.st # "none"

\* A call whose every attempt failed and that returned None.
C5_Witness ==
    \E p \in Procs : \E i \in FutureIds(p) :
        futs[p][i].st = "none" /\ futs[p][i].logs = MAX_RETRIES

\* Two finished runs, one right after the other with no run overlapping
\* either, that both left the fetching stage with the same Result Set.
BackToBack(k) ==
    /\ k \in 1..(Len(hist) - 1)
    /\ hist[k].solo /\ hist[k + 1].solo
    /\ hist[k].raised \in {"", "state"} /\ hist[k + 1].raised \in {"", "state"}
    /\ hist[k].tokens = hist[k + 1].tokens

\* C6: of two consecutive, non-overlapping runs with the same Result Set the
\* second neither writes token_ind.json nor invokes upload_to_github, and the
\* first wrote and published if it found no file or a different state.
C6_Idempotent ==
    \A k \in 1..Len(hist) :
        BackToBack(k) =>
            /\ ~hist[k + 1].wrote /\ ~hist[k + 1].upload.invoked
            /\ (hist[k].existing.read /\ Differs(hist[k].existing, hist[k].tokens))
                  => hist[k].wrote /\ hist[k].upload.invoked

\* The first run wrote and published a non-empty Result Set, the second read
\* it back and did nothing.
C6_Witness ==
    \E k \in 1..Len(hist) :
        /\ BackToBack(k) /\ Len(hist[k].tokens) > 0
        /\ hist[k].wrote /\ hist[k].upload.invoked
        /\ hist[k + 1].existing.read /\ ~hist[k + 1].wrote
        /\ ~hist[k + 1].upload.invoked

AllWellFormed(p) == \A i \in 1..Len(accounts[p]) : WellFormed(accounts[p][i])

\* C7: a call that ends in None does not fail the run: with a well-formed
\* batch the fetching stage never raises, and once the run has left it the
\* token of every call that succeeded is in the Result Set.
C7_PartialFailureTolerated ==
    \A p \in Procs :
        /\ AllWellFormed(p) => raised[p] \notin {"submit", "result"} /\ pc[p] # "exit"
        /\ (LeftFetching(p) /\ raised[p] \in {"", "state"}) =>
              \A i \in FutureIds(p) :
                  futs[p][i].st = "ok" =>
                      \E k \in 1..Len(tokens[p]) :
                          origin[p][k] = i /\ tokens[p][k].token = futs[p][i].token

\* a1 succeeds, a2 fails on every attempt: the Result Set is a1's token, the
\* file holds it and upload_to_github was invoked.
C7_Witness ==
    \E p \in Procs :
        /\ pc[p] = "done"
        /\ accounts[p] = <<Account("a1"), Account("a2")>>
        /\ futs[p][1].st = "ok" /\ futs[p][2].st = "none"
        /\ tokens[p] = <<[token |-> "T1"]>>
        /\ wrote[p] /\ upload[p].invoked
        /\ tokenFile = FileOf(JsonDump(tokens[p]))

\* C8 as stated: at most MAX_THREADS calls are in flight, and once the
\* submission loop is over every account of the batch has been submitted.
C8_AllSubmittedBounded ==
    \A p \in Procs :
        /\ Cardinality(Busy(p)) <= MAX_THREADS
        /\ (pc[p] \in {"collect", "exit"} \/ LeftFetching(p))
              => Len(futs[p]) = Len(accounts[p])

\* C8 amended: at most MAX_THREADS calls are in flight; the accounts are
\* submitted in order, all of them if every entry has a uid, and otherwise up
\* to and including the first entry without one, where the loop raises.
C8_BoundedPool ==
    \A p \in Procs :
        /\ Cardinality(Busy(p)) <= MAX_THREADS
        /\ Len(futs[p]) <= Len(accounts[p])
        /\ ((pc[p] \in {"collect", "exit"} \/ LeftFetching(p)) /\ raised[p] # "submit")
              => Len(futs[p]) = Len(accounts[p])
        /\ raised[p] = "submit" => "uid" \notin DOMAIN accounts[p][Len(futs[p])]
        /\ \A j \in 1..(Len(futs[p]) - 1) : "uid" \in DOMAIN accounts[p][j]

\* The pool is full while a submitted call is still waiting for a worker.
C8_Witness ==
    \E p \in Procs :
        /\ Len(futs[p]) = Len(accounts[p])
        /\ Cardinality(Busy(p)) = MAX_THREADS
        /\ \E i \in FutureIds(p) : futs[p][i].st = "queued"

\* C9: once a run has left the fetching stage, normally or through the error
\* path, every call submitted in it has concluded: none is queued or running.
C9_PoolScopedToRun ==
    \A p \in Procs :
        LeftFetching(p) =>
            \A i \in FutureIds(p) : Concluded(futs[p][i])

\* A run ended by the exception of a worker (an entry without password)
\* while another call of the batch needed retries and was never collected.
C9_Witness ==
    \E p \in Procs :
        /\ pc[p] = "done" /\ raised[p] = "result"
        /\ \E i \in FutureIds(p) :
              futs[p][i].st = "ok" /\ futs[p][i].fails > 0 /\ ~futs[p][i].taken

\* C10: nothing keeps a trigger from starting a run while the other
\* trigger's run is active; and two runs with the same Result Set that both
\* read the same differing Persisted State both write and both publish.
C10_NoMutualExclusion ==
    /\ \A p \in Procs :
          (pc[p] \in {"idle", "done"} /\ runsLeft > 0) => ENABLED StartRun(p)
    /\ \A p, q \in Procs :
          (/\ p # q /\ pc[p] = "done" /\ pc[q] = "done"
           /\ ~solo[p] /\ ~solo[q]
           /\ existing[p].read /\ existing[q] = existing[p]
           /\ tokens[p] = tokens[q] /\ Differs(existing[p], tokens[p]))
          => wrote[p] /\ wrote[q] /\ upload[p].invoked /\ upload[q].invoked

\* Two overlapping runs with the same non-empty Result Set both read the old
\* file, both wrote, and both uploaded the same content.
C10_Witness ==
    \E p, q \in Procs :
        /\ p # q /\ pc[p] = "done" /\ pc[q] = "done"
        /\ ~solo[p] /\ ~solo[q]
        /\ Len(tokens[p]) > 0 /\ tokens[p] = tokens[q]
        /\ existing[p].exists /\ existing[q] = existing[p]
        /\ existing[p].data # tokens[p]
        /\ wrote[p] /\ wrote[q]
        /\ upload[p].ok /\ upload[q].ok
        /\ upload[p].content = JsonDump(tokens[p])
        /\ upload[q].content = JsonDump(tokens[p])

\* C11: a run whose account source cannot be read, or whose batch holds a
\* malformed entry, never reaches the change gate: it ends through the error
\* path having neither read nor written token_ind.json nor invoked
\* upload_to_github, so that the file and the remote copy are as they were.
C11_BatchFailureNoWrite ==
    \A p \in Procs :
        /\ raised[p] \in {"accounts", "submit", "result"} =>
              /\ pc[p] \in {"exit", "done"}
              /\ existing[p] = NotRead /\ ~wrote[p] /\ ~upload[p].invoked
              /\ tokenFile \in InitialTokenFiles /\ remote = NoFile
        /\ ~AllWellFormed(p) =>
              /\ pc[p] \notin {"compare", "write", "dump", "upload"}
              /\ pc[p] = "done" => raised[p] \in {"submit", "result"}
        /\ (pc[p] = "done" /\ ~accountsFile.readable) => raised[p] = "accounts"

\* A run that had already collected a token when the exception of a worker
\* (an entry without password) ended it: nothing was written.
C11_Witness ==
    \E p \in Procs :
        /\ pc[p] = "done" /\ raised[p] = "result"
        /\ Len(tokens[p]) > 0 /\ ~wrote[p] /\ ~upload[p].invoked
        /\ tokenFile.exists

\* The remote copy after the first n finished runs: the content of the last
\* upload among them that succeeded.
PublishedUpTo(n) ==
    LET done == {j \in 1..n : hist[j].upload.ok}
    IN  IF done = {} THEN NoFile
        ELSE FileOf(hist[CHOOSE j \in done : \A i \in done : i <= j].upload.content)

\* Finished run k, overlapped by no other run, wrote token_ind.json and its
\* upload_to_github failed.
FailedPublish(k) ==
    /\ k \in 1..Len(hist)
    /\ hist[k].solo /\ hist[k].wrote
    /\ hist[k].upload.invoked /\ ~hist[k].upload.ok

\* C12: the remote copy changes only by an upload that succeeds; after a run
\* that wrote and whose upload failed the file holds the run's Result Set and
\* the remote copy is what it was; and the next run, if it is not overlapped
\* and has the same Result Set, reads that set back, writes nothing and does
\* not invoke upload_to_github.
C12_PublishFailureKeepsWrite ==
    /\ remote = PublishedUpTo(Len(hist))
    /\ \A k \in 1..Len(hist) :
          FailedPublish(k) =>
              /\ (k = Len(hist) /\ \A p \in Procs : pc[p] \notin {"dump", "upload"})
                    => /\ tokenFile = FileOf(JsonDump(hist[k].tokens))
                       /\ remote = PublishedUpTo(k - 1)
              /\ BackToBack(k) =>
                    /\ hist[k + 1].raised = ""
                    /\ hist[k + 1].existing.exists
                    /\ hist[k + 1].existing.data = hist[k].tokens
                    /\ ~hist[k + 1].wrote /\ ~hist[k + 1].upload.invoked

\* A run wrote a token and failed to upload it; the next run fetched the same
\* token and did nothing: the file holds it, the repository holds nothing.
C12_Witness ==
    \E k \in 1..Len(hist) :
        /\ FailedPublish(k) /\ BackToBack(k) /\ k + 1 = Len(hist)
        /\ Len(hist[k].tokens) > 0
        /\ ~hist[k + 1].wrote /\ ~hist[k + 1].upload.invoked
        /\ tokenFile = FileOf(JsonDump(hist[k].tokens))
        /\ remote = NoFile

\* The moves of a run between its positions: Start (load), Fetching (submit,
\* collect, exit), Comparing (compare), Publishing (write, dump, upload),
\* Done; a trigger starts its next run from idle or done.
StageOrder ==
    {<<"idle", "load">>, <<"done", "load">>,
     <<"load", "submit">>, <<"load", "collect">>, <<"load", "done">>,
     <<"submit", "collect">>, <<"submit", "exit">>,
     <<"collect", "exit">>, <<"collect", "compare">>, <<"exit", "done">>,
     <<"compare", "write">>, <<"compare", "done">>,
     <<"write", "dump">>, <<"dump", "upload">>, <<"upload", "done">>}

\* C13: every step of a run follows the stage order, so no stage is entered
\* twice; the Persisted State is read only in the comparing stage, entered
\* with every fetch concluded and no exception; the publishing stage is
\* entered only on a difference and the run ends from the comparing stage
\* only on equality or on an unreadable state; the file changes only in the
\* publishing stage; upload_to_github is invoked only after the write; and
\* after an exception the run only ends.
C13_StageOrder ==
    [][/\ \A p \in Procs :
            /\ pc'[p] # pc[p] => <<pc[p], pc'[p]>> \in StageOrder
            /\ (pc'[p] = "compare" /\ pc[p] # "compare") =>
                  /\ raised'[p] = ""
                  /\ \A i \in 1..Len(futs'[p]) : Concluded(futs'[p][i]) /\ futs'[p][i].taken
                  /\ Len(futs'[p]) = Len(accounts'[p])
            /\ (existing'[p] # existing[p] /\ pc[p] # "done" /\ pc[p] # "idle")
                  => pc[p] = "compare"
            /\ (pc[p] = "compare" /\ pc'[p] = "write") =>
                  existing'[p].read /\ Differs(existing'[p], tokens[p])
            /\ (pc[p] = "compare" /\ pc'[p] = "done") =>
                  \/ raised'[p] = "state"
                  \/ existing'[p].exists /\ existing'[p].data = tokens[p]
            /\ (upload'[p].invoked /\ ~upload[p].invoked) =>
                  wrote[p] /\ pc[p] = "upload"
            /\ (raised[p] # "" /\ pc'[p] # pc[p]) =>
                  \/ pc'[p] = "done"
                  \/ pc[p] = "done" /\ pc'[p] = "load" /\ raised'[p] = ""
       /\ tokenFile' # tokenFile =>
             \E p \in Procs : pc[p] \in {"write", "dump"} /\ pc'[p] # pc[p]
      ]_vars

\* Both ways through the stages were taken: one run went Start, Fetching,
\* Comparing, Publishing, Done and another ended from Comparing unchanged.
C13_Witness ==
    \E j, k \in 1..Len(hist) :
        /\ hist[j].raised = "" /\ hist[j].wrote /\ hist[j].upload.invoked
        /\ Len(hist[j].tokens) > 0
        /\ hist[k].raised = "" /\ hist[k].existing.read /\ ~hist[k].wrote
        /\ \A p \in Procs : pc[p] = "done"

EmptySource == accountsFile.readable /\ accountsFile.accounts = <<>>

\* C14: with an empty account list a run submits nothing and its Result Set
\* is empty; once it has read a non-empty Persisted State it is in the
\* publishing stage, and when it is done it has overwritten the file with the
\* empty set and invoked upload_to_github, which read the empty set (unless
\* it failed before reading) and, on success, made it the remote content.
C14_EmptyInputChanged ==
    \A p \in Procs :
        (EmptySource /\ pc[p] \notin {"idle", "load"}) =>
            /\ accounts[p] = <<>> /\ futs[p] = <<>> /\ tokens[p] = <<>>
            /\ raised[p] \in {"", "state"}
            /\ (existing[p].exists /\ existing[p].data # <<>>) =>
                  /\ pc[p] \in {"write", "dump", "upload", "done"}
                  /\ pc[p] \in {"upload", "done"} =>
                        wrote[p] /\ tokenFile = FileOf(JsonDump(<<>>))
                  /\ pc[p] = "done" =>
                        /\ upload[p].invoked
                        /\ upload[p].content \in {<<>>, JsonDump(<<>>)}
                        /\ upload[p].ok =>
                              /\ upload[p].content = JsonDump(<<>>)
                              /\ remote = FileOf(JsonDump(<<>>))

\* A run over the empty list found one token persisted, replaced it by the
\* empty set and published the empty set.
C14_Witness ==
    \E p \in Procs :
        /\ EmptySource /\ pc[p] = "done" /\ tokens[p] = <<>>
        /\ existing[p].exists /\ existing[p].data = <<[token |-> "T1"]>>
        /\ wrote[p] /\ upload[p].ok
        /\ tokenFile = FileOf(<<"[", "]">>) /\ remote = FileOf(<<"[", "]">>)

\* C15: every ended run of the on-demand trigger, whatever its outcome
\* (exception at any place, publisher failure, nothing fetched, Unchanged),
\* was answered with the same acknowledgement, never with an error.
C15_AlwaysAcknowledged ==
    \A k \in 1..Len(hist) :
        hist[k].proc = "run_job" =>
            /\ hist[k].reply = Ack
            /\ hist[k].raised # "" => ~hist[k].wrote /\ ~hist[k].upload.invoked

\* Two ended runs of run_job were acknowledged: one whose collection raised
\* on a malformed entry, after one that raised the same way.
C15_Witness ==
    /\ Len(hist) = 2
    /\ \A k \in 1..2 : /\ hist[k].proc = "run_job"
                       /\ hist[k].raised = "result"
                       /\ hist[k].reply = Ack
    /\ pc["run_job"] = "done"

\* The two lists hold the same tokens, arranged differently.
Reordered(a, b) ==
    /\ a # b
    /\ Len(a) = Len(b)
    /\ \E f \in [1..Len(a) -> 1..Len(a)] :
          /\ \A i, j \in 1..Len(a) : i # j => f[i] # f[j]
          /\ \A i \in 1..Len(a) : b[i] = a[f[i]]

\* C16: the Result Set lists the tokens in the order in which the futures
\* were collected, and every ended run that found the Persisted State holding
\* its tokens in another order wrote the file and invoked upload_to_github.
C16_OrderSensitiveGate ==
    /\ \A p \in Procs : \A k \in 1..Len(tokens[p]) :
          /\ k <= Len(origin[p])
          /\ origin[p][k] \in 1..Len(futs[p])
          /\ tokens[p][k].token = futs[p][origin[p][k]].token
    /\ \A p \in Procs :
          (pc[p] \in {"write", "dump", "upload", "done"} /\ raised[p] = ""
             /\ existing[p].exists /\ Reordered(existing[p].data, tokens[p]))
          => /\ pc[p] # "done" \/ (wrote[p] /\ upload[p].invoked)
             /\ pc[p] = "upload" => wrote[p]
    /\ \A k \in 1..Len(hist) :
          (hist[k].raised = "" /\ hist[k].existing.exists
             /\ Reordered(hist[k].existing.data, hist[k].tokens))
          => hist[k].wrote /\ hist[k].upload.invoked

\* Two runs, one after the other, got T1 for the first account and T2 for the
\* second; the futures were collected in opposite orders, and the second run
\* found the first run's list, wrote its own and published it.
C16_Witness ==
    /\ Len(hist) = 2 /\ hist[1].solo /\ hist[2].solo
    /\ hist[1].tokens = <<[token |-> "T1"], [token |-> "T2"]>>
    /\ hist[1].origin = <<1, 2>>
    /\ hist[2].tokens = <<[token |-> "T2"], [token |-> "T1"]>>
    /\ hist[2].origin = <<2, 1>>
    /\ hist[2].existing.exists /\ hist[2].existing.data = hist[1].tokens
    /\ hist[2].wrote /\ hist[2].upload.ok
    /\ remote = FileOf(JsonDump(hist[2].tokens))

\* C17: the delay is taken between attempts only: a call that has made k
\* attempts has ended k-1 sleeps when it waits for an answer and when it has
\* returned, with a token or with None.
C17_DelayBetweenAttempts ==
    \A p \in Procs : \A i \in 1..Len(futs[p]) :
        LET f == futs[p][i]
        IN  f.st \in {"request", "ok", "none"} => f.sleeps = f.reqs - 1

\* A call returned None after MAX_RETRIES attempts and as many sleeps: the
\* last sleep was followed by no attempt.
C17_Witness ==
    \E p \in Procs : \E i \in 1..Len(futs[p]) :
        /\ futs[p][i].st = "none"
        /\ futs[p][i].reqs = MAX_RETRIES
        /\ futs[p][i].sleeps = MAX_RETRIES

RECURSIVE Requests(_)
\* The requests issued so far by the calls of a sequence of futures.
Requests(fs) == IF fs = <<>> THEN 0 ELSE Head(fs).reqs + Requests(Tail(fs))

\* C18: a run never issues more than MAX_RETRIES requests per call nor more
\* than MAX_RETRIES times the size of its batch in total, and once a run has
\* started, a moment comes at which no run is under way: the run has reached
\* its end, whatever the answers of the API.
C18_RunTerminates ==
    /\ [](\A p \in Procs :
            /\ \A i \in 1..Len(futs[p]) : futs[p][i].reqs <= MAX_RETRIES
            /\ Len(futs[p]) <= Len(accounts[p])
            /\ Requests(futs[p]) <= MAX_RETRIES * Len(accounts[p]))
    /\ (\E p \in Procs : pc[p] = "load")
          ~> (\A p \in Procs : pc[p] \in {"idle", "done"})

\* A run over two accounts ended after MAX_RETRIES failed attempts for each.
C18_Witness ==
    \E p \in Procs :
        /\ pc[p] = "done" /\ Len(accounts[p]) = 2
        /\ Requests(futs[p]) = MAX_RETRIES * 2
        /\ tokens[p] = <<>>

\* C19: whatever upload_to_github read from the file and sent, or sent with
\* success, in a run is the text of the Result Set that this run wrote.
C19_UploadsOwnResult ==
    \A p \in Procs :
        (upload[p].invoked /\ (upload[p].ok \/ upload[p].content # <<>>))
            => upload[p].content = JsonDump(tokens[p])

\* A run that fetched a token and wrote it published with success a text
\* that is not its Result Set, and that text is now the remote content.
C19_Witness ==
    \E p \in Procs :
        /\ pc[p] = "done" /\ wrote[p] /\ upload[p].ok
        /\ Len(tokens[p]) = 1
        /\ upload[p].content # JsonDump(tokens[p])
        /\ remote = FileOf(upload[p].content)

Unparseable == tokenFile.exists /\ ~Parseable(tokenFile.bytes)

\* The file is unparseable and no run is between its comparison and the end
\* of its write.
CorruptAtRest == Unparseable /\ \A p \in Procs : pc[p] \notin {"write", "dump"}

\* C20: a run that fails to parse the file has ended without having written
\* or invoked upload_to_github; a run that reads the file while it is
\* unparseable ends that way in the same step, leaving the file and the
\* remote copy as they are; and an unparseable file at rest stays as it is
\* for ever, no step of any run changing it or bringing a run to write.
C20_CorruptStateNeverRepaired ==
    /\ [](\A p \in Procs :
            raised[p] = "state" =>
                /\ pc[p] = "done"
                /\ ~existing[p].read /\ ~wrote[p] /\ ~upload[p].invoked)
    /\ [][/\ \A p \in Procs :
               (pc[p] = "compare" /\ pc'[p] # "compare" /\ Unparseable) =>
                   /\ raised'[p] = "state" /\ pc'[p] = "done"
                   /\ hist' = Append(hist, hist'[Len(hist')])
                   /\ hist'[Len(hist')].raised = "state"
                   /\ ~hist'[Len(hist')].wrote /\ ~hist'[Len(hist')].upload.invoked
                   /\ tokenFile' = tokenFile /\ remote' = remote
          /\ CorruptAtRest => (tokenFile' = tokenFile /\ CorruptAtRest')
         ]_vars

\* The file was unparseable from the start; two runs, one after the other,
\* each fetched a token, failed to read the file and ended; the file is as it
\* was and nothing was published.
C20_Witness ==
    /\ Len(hist) = 2
    /\ \A k \in 1..2 : /\ hist[k].raised = "state" /\ hist[k].solo
                       /\ Len(hist[k].tokens) = 1
                       /\ ~hist[k].wrote /\ ~hist[k].upload.invoked
    /\ tokenFile = FileOf(<<"[">>) /\ remote = NoFile
    /\ \A p \in Procs : pc[p] \in {"idle", "done"}

====
